---------------------------- MODULE Spec2Model ----------------------------
(***************************************************************************)
(* Model of the Cuckfish chess engine (src/engine/engine.py): the static   *)
(* evaluator, the capture-first move ordering, the quiescence search, the  *)
(* alpha-beta search, the depth selection of search_initializer and the    *)
(* root orchestration of next_move with its process pool.                  *)
(*                                                                         *)
(* The engine consumes the rules of chess through python-chess             *)
(* (chess.Board).  The part of that library the engine calls is modelled   *)
(* here for positions without pawns and without castling rights: piece     *)
(* placement, side to move, move stack, legal move generation in the       *)
(* library's generation order, push/pop, is_capture, is_checkmate and      *)
(* outcome (checkmate, insufficient material, stalemate).  The halfmove    *)
(* clock starts at 0 and the history is empty in every initial position,   *)
(* so the 75-move and fivefold-repetition draws cannot arise within the    *)
(* search horizons explored.                                               *)
(***************************************************************************)
EXTENDS Integers, Sequences, FiniteSets, TLC

(***************************************************************************)
(* Integer helpers.                                                        *)
(***************************************************************************)
Abs(x) == IF x < 0 THEN -x ELSE x

Sign(x) == IF x > 0 THEN 1 ELSE IF x < 0 THEN -1 ELSE 0

Max2(x, y) == IF x >= y THEN x ELSE y

(***************************************************************************)
(* chess: squares, colours, piece types.                                   *)
(***************************************************************************)
Squares == 0..63

square_file(sq) == sq % 8

square_rank(sq) == sq \div 8

WHITE == TRUE

BLACK == FALSE

PAWN == 1

KNIGHT == 2

BISHOP == 3

ROOK == 4

QUEEN == 5

KING == 6

Piece(color, piece_type) == [color |-> color, piece_type |-> piece_type]

Move(from_square, to_square) ==
  [from_square |-> from_square, to_square |-> to_square]

\* board.piece_map(): the occupied squares and the piece on each.
piece_map(board) == board.pieces

color_at(board, pos) == board.pieces[pos].color

piece_type_at(board, pos) == board.pieces[pos].piece_type

\* The squares strictly between two aligned squares are all empty.
Clear(occ, a, b) ==
  LET df == square_file(b) - square_file(a)
      dr == square_rank(b) - square_rank(a)
      n == Max2(Abs(df), Abs(dr))
      step == 8 * Sign(dr) + Sign(df)
  IN \A k \in 1..(n - 1) : (a + k * step) \notin occ

\* The piece on a attacks square b on the given placement.
attacks(pieces, a, b) ==
  LET t == pieces[a].piece_type
      df == Abs(square_file(b) - square_file(a))
      dr == Abs(square_rank(b) - square_rank(a))
  IN /\ a # b
     /\ CASE t = KNIGHT -> {df, dr} = {1, 2}
          [] t = KING -> df <= 1 /\ dr <= 1
          [] t = ROOK -> (df = 0 \/ dr = 0) /\ Clear(DOMAIN pieces, a, b)
          [] t = BISHOP -> df = dr /\ Clear(DOMAIN pieces, a, b)
          [] t = QUEEN ->
               (df = 0 \/ dr = 0 \/ df = dr) /\ Clear(DOMAIN pieces, a, b)
          [] OTHER -> FALSE

is_attacked_by(pieces, color, sq) ==
  \E a \in DOMAIN pieces : pieces[a].color = color /\ attacks(pieces, a, sq)

king(pieces, color) ==
  CHOOSE s \in DOMAIN pieces :
    pieces[s].color = color /\ pieces[s].piece_type = KING

\* The placement after a move: the moved piece replaces whatever stood on
\* the target square.
Moved(pieces, move) ==
  [s \in (DOMAIN pieces \ {move.from_square}) \cup {move.to_square} |->
     IF s = move.to_square THEN pieces[move.from_square] ELSE pieces[s]]

is_check(board) ==
  is_attacked_by(board.pieces, ~board.turn, king(board.pieces, board.turn))

\* A pseudo-legal move is legal when it does not leave the mover's king
\* attacked.
is_safe(board, move) ==
  LET p2 == Moved(board.pieces, move)
  IN ~is_attacked_by(p2, ~board.turn, king(p2, board.turn))

\* The piece on a may legally move to b.
is_target(board, a, b) ==
  /\ attacks(board.pieces, a, b)
  /\ (b \in DOMAIN board.pieces => board.pieces[b].color # board.turn)
  /\ is_safe(board, Move(a, b))

\* The legal target squares of the piece on square a.
Targets(board, a) == {b \in Squares : is_target(board, a, b)}

\* The squares from the highest to the lowest (the order of python-chess's
\* scan_reversed over a bitboard).
DescSquares == [i \in 1..64 |-> 64 - i]

MovesFrom(board, a) ==
  LET d == SelectSeq(DescSquares, LAMBDA b : is_target(board, a, b))
  IN [i \in 1..Len(d) |-> Move(a, d[i])]

RECURSIVE MovesOf(_, _, _)
\* The legal moves of the pieces on the squares froms[i..], in that order.
MovesOf(board, froms, i) ==
  IF i > Len(froms) THEN <<>>
  ELSE MovesFrom(board, froms[i]) \o MovesOf(board, froms, i + 1)

\* board.legal_moves, in generation order: pieces from the highest square
\* to the lowest, targets from the highest to the lowest; when the mover is
\* in check the king's evasions come first.
legal_moves(board) ==
  LET k == king(board.pieces, board.turn)
      own(s) == s \in DOMAIN board.pieces /\ board.pieces[s].color = board.turn
  IN IF is_check(board)
     THEN MovesFrom(board, k)
            \o MovesOf(board,
                       SelectSeq(DescSquares, LAMBDA s : own(s) /\ s # k), 1)
     ELSE MovesOf(board, SelectSeq(DescSquares, own), 1)

\* board.is_capture(move): the target square holds a piece of the opponent.
is_capture(board, move) ==
  /\ move.to_square \in DOMAIN board.pieces
  /\ board.pieces[move.to_square].color # board.turn

\* board.push(move): the previous state is saved on the stack.
push(board, move) ==
  [pieces |-> Moved(board.pieces, move),
   turn |-> ~board.turn,
   stack |-> Append(board.stack,
                    [move |-> move, pieces |-> board.pieces,
                     turn |-> board.turn])]

\* board.pop(): the state saved by the last push is restored.
pop(board) ==
  LET top == board.stack[Len(board.stack)]
  IN [pieces |-> top.pieces,
      turn |-> top.turn,
      stack |-> SubSeq(board.stack, 1, Len(board.stack) - 1)]

\* any(board.generate_legal_moves()): generation stops at the first move.
has_legal_moves(board) ==
  \E a \in DOMAIN board.pieces :
    /\ board.pieces[a].color = board.turn
    /\ \E b \in Squares : is_target(board, a, b)

is_checkmate(board) == is_check(board) /\ ~has_legal_moves(board)

has_insufficient_material(board, color) ==
  LET P == board.pieces
      own == {s \in DOMAIN P : P[s].color = color}
      opp == {s \in DOMAIN P : P[s].color # color}
      bishops == {s \in DOMAIN P : P[s].piece_type = BISHOP}
      dark == {s \in bishops : (square_file(s) + square_rank(s)) % 2 = 0}
  IN IF \E s \in own : P[s].piece_type \in {PAWN, ROOK, QUEEN} THEN FALSE
     ELSE IF \E s \in own : P[s].piece_type = KNIGHT
     THEN /\ Cardinality(own) <= 2
          /\ ~\E s \in opp : P[s].piece_type \notin {KING, QUEEN}
     ELSE IF \E s \in own : P[s].piece_type = BISHOP
     THEN /\ (dark = {} \/ dark = bishops)
          /\ ~\E s \in DOMAIN P : P[s].piece_type \in {PAWN, KNIGHT}
     ELSE TRUE

is_insufficient_material(board) ==
  has_insufficient_material(board, WHITE)
    /\ has_insufficient_material(board, BLACK)

\* board.outcome() is not None: checkmate, insufficient material or
\* stalemate.
outcome(board) ==
  is_insufficient_material(board) \/ ~has_legal_moves(board)


(***************************************************************************)
(* ChessEngine.evaluate_board: material and piece-square tables.           *)
(***************************************************************************)
\* The material values, by piece type.
piece ==
  <<100, 300, 300, 500, 900, 500>>

\* The piece-square tables, by piece type; entry pos + 1 is square pos.
pst ==
  << <<0, 0, 0, 0, 0, 0, 0, 0,
       5, 10, 10, -25, -25, 10, 10, 5,
       5, -5, -10, 0, 0, -10, -5, 5,
       5, 0, 0, 25, 25, 0, 0, 5,
       5, 5, 10, 27, 27, 10, 5, 5,
       10, 10, 20, 30, 30, 20, 10, 10,
       50, 50, 50, 50, 50, 50, 50, 50,
       0, 0, 0, 0, 0, 0, 0, 0>>,
     <<-50, -40, -30, -30, -30, -30, -40, -50,
       -40, -20, 0, 0, 0, 0, -20, -40,
       -30, 0, 10, 15, 15, 10, 0, -30,
       -30, 5, 15, 20, 20, 15, 5, -30,
       -30, 0, 15, 20, 20, 15, 0, -30,
       -30, 5, 10, 15, 15, 10, 5, -30,
       -40, -20, 0, 5, 5, 0, -20, -40,
       -50, -40, -20, -30, -30, -20, -40, -50>>,
     <<-20, -10, -10, -10, -10, -10, -10, -20,
       -10, 15, 0, 0, 0, 0, 15, -10,
       -10, 10, 10, 10, 10, 10, 10, -10,
       -10, 0, 15, 10, 10, 15, 0, -10,
       -10, 5, 5, 10, 10, 5, 5, -10,
       -10, 0, 5, 10, 10, 5, 0, -10,
       -10, 0, 0, 0, 0, 0, 0, -10,
       -20, -10, -40, -10, -10, -40, -10, -20>>,
     [i \in 1..64 |-> 0],
     [i \in 1..64 |-> 0],
     <<20, 30, 10, 0, 0, 10, 30, 20,
       20, 20, 0, 0, 0, 0, 20, 20,
       -10, -20, -20, -20, -20, -20, -20, -10,
       -20, -30, -30, -40, -40, -30, -30, -20,
       -30, -40, -40, -50, -50, -40, -40, -30,
       -30, -40, -40, -50, -50, -40, -40, -30,
       -30, -40, -40, -50, -50, -40, -40, -30,
       -30, -40, -40, -50, -50, -40, -40, -30>> >>

\* The contribution of the piece on square pos to White's score.
SquareScore(board, pos) ==
  IF color_at(board, pos)
  THEN pst[piece_type_at(board, pos)][pos + 1]
         + piece[piece_type_at(board, pos)]
  ELSE -(pst[piece_type_at(board, pos)][(63 - pos) + 1]
           + piece[piece_type_at(board, pos)])

RECURSIVE SumScores(_, _)
SumScores(board, S) ==
  IF S = {} THEN 0
  ELSE LET pos == CHOOSE x \in S : TRUE
       IN SquareScore(board, pos) + SumScores(board, S \ {pos})

evaluate_board(board) ==
  LET score == SumScores(board, DOMAIN piece_map(board))
  IN IF board.turn THEN score ELSE -score

(***************************************************************************)
(* ChessEngine.ordered: captures first.                                    *)
(***************************************************************************)
RECURSIVE orderedLoop(_, _, _, _)
\* The loop of ordered over the generated moves gen[i..], with the list
\* built so far.
orderedLoop(board, gen, i, moves) ==
  IF i > Len(gen) THEN moves
  ELSE IF is_capture(board, gen[i])
       THEN orderedLoop(board, gen, i + 1, <<gen[i]>> \o moves)
       ELSE orderedLoop(board, gen, i + 1, Append(moves, gen[i]))

\* ordered without the reordering: the moves as generated.
ordered_as_generated(board) == legal_moves(board)

ordered(board) == orderedLoop(board, legal_moves(board), 1, <<>>)

(***************************************************************************)
(* ChessEngine.quiesce and ChessEngine.alphaBeta.  Each returns the score  *)
(* together with the board as the call leaves it, so that the pushes and   *)
(* pops of every path are part of the result.                              *)
(***************************************************************************)
INF == 100000

Ret(value, board) == [value |-> value, board |-> board]

\* A quiesce that follows every legal move.
quiesce_explores_all(board, move) == TRUE

\* Line 164: quiesce follows the captures only.
quiesce_explores(board, move) == is_capture(board, move)

RECURSIVE quiesce(_, _, _)
RECURSIVE quiesceLoop(_, _, _, _, _)
RECURSIVE alphaBeta(_, _, _, _)
RECURSIVE alphaBetaLoop(_, _, _, _, _, _)

quiesce(board, alpha, beta) ==
  LET stand_pat == evaluate_board(board)
  IN IF stand_pat >= beta THEN Ret(beta, board)
     ELSE quiesceLoop(board, legal_moves(board), 1,
                      IF alpha < stand_pat THEN stand_pat ELSE alpha, beta)

\* The for loop of quiesce over the generated moves gen[i..].
quiesceLoop(board, gen, i, alpha, beta) ==
  IF i > Len(gen) THEN Ret(alpha, board)
  ELSE IF ~quiesce_explores(board, gen[i])
       THEN quiesceLoop(board, gen, i + 1, alpha, beta)
       ELSE LET r == quiesce(push(board, gen[i]), -beta, -alpha)
                score == -r.value
                b2 == pop(r.board)
            IN IF score > alpha
               THEN IF score >= beta THEN Ret(beta, b2)
                    ELSE quiesceLoop(b2, gen, i + 1, score, beta)
               ELSE quiesceLoop(b2, gen, i + 1, alpha, beta)

\* Line 195: the value of a position where the game has ended, without the
\* distinction of mate and draw.
terminal_score_no_mate(board, alpha) == 0

\* Line 195 with a fixed sentinel for mate instead of alpha.
terminal_score_sentinel(board, alpha) ==
  IF is_checkmate(board) THEN -INF ELSE 0

\* Line 195: the value of a position where the game has ended.
terminal_score(board, alpha) == IF is_checkmate(board) THEN alpha ELSE 0

\* alphaBeta with the static evaluation at depth 0, as negamax_search has
\* it (line 181), instead of the quiescence search.
alphaBeta_static_horizon(board, alpha, beta, depth) ==
  IF outcome(board)
  THEN Ret(terminal_score(board, alpha), board)
  ELSE IF depth = 0 THEN Ret(evaluate_board(board), board)
       ELSE alphaBetaLoop(board, ordered(board), 1, alpha, beta, depth)

alphaBeta(board, alpha, beta, depth) ==
  IF outcome(board)
  THEN Ret(terminal_score(board, alpha), board)
  ELSE IF depth = 0 THEN quiesce(board, alpha, beta)
       ELSE alphaBetaLoop(board, ordered(board), 1, alpha, beta, depth)

\* The for loop of alphaBeta over moves[i..].
alphaBetaLoop(board, moves, i, alpha, beta, depth) ==
  IF i > Len(moves) THEN Ret(alpha, board)
  ELSE LET r == alphaBeta(push(board, moves[i]), -beta, -alpha, depth - 1)
           score == -r.value
           b2 == pop(r.board)
       IN IF score > alpha
          THEN IF score >= beta THEN Ret(beta, b2)
               ELSE alphaBetaLoop(b2, moves, i + 1, score, beta, depth)
          ELSE alphaBetaLoop(b2, moves, i + 1, alpha, beta, depth)


(***************************************************************************)
(* board.san(move) and board.push_san(san): standard algebraic notation,   *)
(* as a tuple of its parts: piece symbol, disambiguating file and rank     *)
(* (-1 when absent), capture mark, target square, check or mate suffix.    *)
(***************************************************************************)
san(board, move) ==
  LET t == piece_type_at(board, move.from_square)
      others == {a \in DOMAIN board.pieces :
                   /\ a # move.from_square
                   /\ board.pieces[a] = board.pieces[move.from_square]
                   /\ move.to_square \in Targets(board, a)}
      sameRank == \E a \in others :
                    square_rank(a) = square_rank(move.from_square)
      sameFile == \E a \in others :
                    square_file(a) = square_file(move.from_square)
      column == others # {} /\ (sameRank \/ ~sameFile)
      row == others # {} /\ sameFile
      after == push(board, move)
  IN <<t,
       IF column THEN square_file(move.from_square) ELSE -1,
       IF row THEN square_rank(move.from_square) ELSE -1,
       is_capture(board, move),
       move.to_square,
       IF is_checkmate(after) THEN "#"
       ELSE IF is_check(after) THEN "+" ELSE "">>

Range(seq) == {seq[i] : i \in 1..Len(seq)}

\* board.parse_san(text): the legal move whose notation is the text.
parse_san(board, text) ==
  CHOOSE m \in Range(legal_moves(board)) : san(board, m) = text

(***************************************************************************)
(* ChessEngine.search_initializer.                                         *)
(***************************************************************************)
\* The depth chosen from the number of legal root moves and the number of
\* pieces on the board.
select_depth(move_amount, npieces) ==
  IF move_amount >= 36 THEN 1
  ELSE IF move_amount >= 26 \/ npieces <= 28 THEN 2
  ELSE IF move_amount >= 18 \/ npieces <= 22 THEN 3
  ELSE IF move_amount < 18 \/ npieces <= 8 THEN 6
  ELSE 1

\* search_initializer without the board.pop() of line 86.
search_initializer_no_pop(move_amount, move, board) ==
  LET depth == select_depth(move_amount, Cardinality(DOMAIN piece_map(board)))
      r == alphaBeta(push(board, move), -INF, INF, depth)
  IN [move |-> move, score |-> -r.value, board |-> r.board]

\* Returns the pair (move, score) and the board as the call leaves it.
search_initializer(move_amount, move, board) ==
  LET depth == select_depth(move_amount, Cardinality(DOMAIN piece_map(board)))
      r == alphaBeta(push(board, move), -INF, INF, depth)
  IN [move |-> move, score |-> -r.value, board |-> pop(r.board)]

(***************************************************************************)
(* list.sort(key = score), list.reverse().                                 *)
(***************************************************************************)
RECURSIVE Insert(_, _)
\* e inserted into the ascending list after every element that is not
\* greater (the sort is stable).
Insert(sorted, e) ==
  IF sorted = <<>> THEN <<e>>
  ELSE IF sorted[Len(sorted)][2] <= e[2] THEN Append(sorted, e)
       ELSE Append(Insert(SubSeq(sorted, 1, Len(sorted) - 1), e),
                   sorted[Len(sorted)])

RECURSIVE SortLoop(_, _, _)
SortLoop(evals, i, sorted) ==
  IF i > Len(evals) THEN sorted
  ELSE SortLoop(evals, i + 1, Insert(sorted, evals[i]))

sort_by_score(evals) == SortLoop(evals, 1, <<>>)

reverse(seq) == [i \in 1..Len(seq) |-> seq[Len(seq) + 1 - i]]


(***************************************************************************)
(* State.                                                                  *)
(***************************************************************************)
VARIABLES
  board,            \* ChessGame.board, the board handed to the engine
  opening_book,     \* ChessEngine.opening_book: "book" or "none"
  pc,               \* where the program is
  uci_moves,        \* next_move: the legal root moves
  move_amount,      \* ChessEngine.move_amount: <<>> while the engine has no
                    \* such attribute, <<n>> once line 32 has assigned n
  move_evals,       \* ChessEngine.move_evals: the list of (move, score)
  result,           \* what next_move returned
  error,            \* the exception next_move raised
  echo,             \* what next_move printed last
  call,             \* a direct call of one function: its name and arguments
  ret,              \* what the direct call returned
  heap,             \* the pool: the board object of each process
  batches,          \* the pool: the task batches and their progress
  frames,           \* the call stack of a quiesce call in progress
  qret              \* the value the last finished quiesce call returned

nmVars ==
  <<opening_book, uci_moves, move_amount, move_evals, result, error, echo>>

unitVars == <<call, ret>>

poolVars == <<heap, batches>>

machineVars == <<frames, qret>>

vars == <<board, pc, nmVars, unitVars, poolVars, machineVars>>

None == "None"

\* A board with an empty move stack.
Board(pieces, turn) == [pieces |-> pieces, turn |-> turn, stack |-> <<>>]

\* Kg1 Qd1 Ra7 against Kh8, White to move: 38 legal moves, Qd8 mates.
MateInOne ==
  Board((6 :> Piece(WHITE, KING)) @@ (3 :> Piece(WHITE, QUEEN))
          @@ (48 :> Piece(WHITE, ROOK)) @@ (63 :> Piece(BLACK, KING)), WHITE)

\* Kb1 Nc3 against Kh8 Nd5 Bb7, White to move: the knights can be exchanged
\* on d5.
Exchange ==
  Board((1 :> Piece(WHITE, KING)) @@ (18 :> Piece(WHITE, KNIGHT))
          @@ (63 :> Piece(BLACK, KING)) @@ (35 :> Piece(BLACK, KNIGHT))
          @@ (49 :> Piece(BLACK, BISHOP)), WHITE)

\* Kg6 Qg7 against Kh8, Black to move: checkmate.
Checkmated ==
  Board((46 :> Piece(WHITE, KING)) @@ (54 :> Piece(WHITE, QUEEN))
          @@ (63 :> Piece(BLACK, KING)), BLACK)

\* Ka1 Qg6 against Kh8, Black to move: stalemate.
Stalemated ==
  Board((0 :> Piece(WHITE, KING)) @@ (46 :> Piece(WHITE, QUEEN))
          @@ (63 :> Piece(BLACK, KING)), BLACK)

\* Ka1 Nc3 against Kh8 Bd5, White to move: taking the bishop leaves
\* insufficient material.
MinorPieces ==
  Board((0 :> Piece(WHITE, KING)) @@ (18 :> Piece(WHITE, KNIGHT))
          @@ (63 :> Piece(BLACK, KING)) @@ (35 :> Piece(BLACK, BISHOP)), WHITE)

\* Ka1 against Kh8, White to move: a draw by insufficient material.
BareKings ==
  Board((0 :> Piece(WHITE, KING)) @@ (63 :> Piece(BLACK, KING)), WHITE)

\* The Exchange position after the white knight has taken on d5: Black to
\* move can take back with the bishop; one move is on the stack.
Recapture == push(Exchange, Move(18, 35))

Catalogue ==
  <<MateInOne, MinorPieces, Checkmated, Stalemated, Recapture, Exchange,
    BareKings>>

NumSeeds == 5

Seeds == {Catalogue[i] : i \in 1..NumSeeds}

MaxPlies == 2

BookEntries == 1


(***************************************************************************)
(* ChessEngine.next_move, in its sequential segments.  The pool's map is   *)
(* one step here: every task runs on a copy of the board in another        *)
(* process (see the pool below) and the call blocks until all are done.    *)
(***************************************************************************)
Plies == Len(board.stack)

\* Lines 31-44: the legal moves, then the opening book if there is one.
\* The book either holds an entry for the position, which is returned at
\* once, or weighted_choice raises IndexError and the search follows.
NextMoveEnter ==
  /\ pc = "engine"
  /\ Plies < MaxPlies
  /\ uci_moves' = legal_moves(board)
  /\ move_amount' = <<Len(legal_moves(board))>>
  /\ \/ /\ opening_book = "book"
        /\ \E i \in 1..BookEntries :
             /\ i <= Len(legal_moves(board))
             /\ result' = san(board, legal_moves(board)[i])
        /\ echo' = "This is from the opening book."
        /\ pc' = "returned"
        /\ UNCHANGED move_evals
     \/ /\ move_evals' = <<>>
        /\ pc' = "search"
        /\ UNCHANGED <<result, echo>>
  /\ UNCHANGED <<board, opening_book, error>>
  /\ UNCHANGED <<unitVars, poolVars, machineVars>>

\* Lines 52-54: pool.map(self.search_initializer, uci_moves, board_list).
PoolMap ==
  /\ pc = "search"
  /\ move_evals' =
       [i \in 1..Len(uci_moves) |->
          LET r == search_initializer(move_amount[1], uci_moves[i], board)
          IN <<r.move, r.score>>]
  /\ pc' = "rank"
  /\ UNCHANGED <<board, opening_book, uci_moves, move_amount, result, error,
                 echo>>
  /\ UNCHANGED <<unitVars, poolVars, machineVars>>

RECURSIVE best_prefix(_, _, _)
\* Lines 59-64: the notations of the leading entries whose score equals
\* the first entry's.
best_prefix(b, evals, i) ==
  IF i > Len(evals) THEN <<>>
  ELSE IF evals[1][2] = evals[i][2]
       THEN <<san(b, evals[i][1])>> \o best_prefix(b, evals, i + 1)
       ELSE <<>>

\* Lines 57-58 without the reverse: the worst moves come first.
ranked_ascending(evals) == sort_by_score(evals)

\* Lines 57-58: sort by score, then reverse.
ranked(evals) == reverse(sort_by_score(evals))

\* Lines 57-58 and 67-68.  With no entry, move_evals[0] on line 68 raises
\* IndexError.
Rank ==
  /\ pc = "rank"
  /\ move_evals' = ranked(move_evals)
  /\ IF move_evals = <<>>
     THEN /\ error' = "IndexError"
          /\ pc' = "raised"
     ELSE /\ pc' = "pick"
          /\ UNCHANGED error
  /\ UNCHANGED <<board, opening_book, uci_moves, move_amount, result, echo>>
  /\ UNCHANGED <<unitVars, poolVars, machineVars>>

\* Lines 59-64 and 69-71: the local list remaining_moves is filled with
\* the notations of the best moves and shuffled, and its first element is
\* returned: any element of the list can be the one returned.
Pick ==
  /\ pc = "pick"
  /\ LET remaining_moves == best_prefix(board, move_evals, 1)
     IN \E i \in 1..Len(remaining_moves) : result' = remaining_moves[i]
  /\ echo' = "reasoning"
  /\ pc' = "returned"
  /\ UNCHANGED <<board, opening_book, uci_moves, move_amount, move_evals,
                 error>>
  /\ UNCHANGED <<unitVars, poolVars, machineVars>>

(***************************************************************************)
(* ChessGame: the game loop around the engine (src/engine/game.py).        *)
(***************************************************************************)
\* check_game_state: the program exits when the game has ended.
check_game_state(b) == IF outcome(b) THEN "exited" ELSE "engine"

\* engine_move: the engine's move is played on the board.
EngineMove ==
  /\ pc = "returned"
  /\ Plies < MaxPlies
  /\ board' = push(board, parse_san(board, result))
  /\ pc' = IF outcome(board') THEN "exited" ELSE "player"
  /\ UNCHANGED <<opening_book, uci_moves, move_amount, move_evals, result,
                 error, echo>>
  /\ UNCHANGED <<unitVars, poolVars, machineVars>>

\* player_move: the player's legal move is played on the board.
PlayerMove ==
  /\ pc = "player"
  /\ Plies < MaxPlies
  /\ \E i \in 1..Len(legal_moves(board)) :
       board' = push(board, legal_moves(board)[i])
  /\ pc' = check_game_state(board')
  /\ UNCHANGED <<opening_book, uci_moves, move_amount, move_evals, result,
                 error, echo>>
  /\ UNCHANGED <<unitVars, poolVars, machineVars>>

\* No call of next_move has run on the engine yet.
NoCall ==
  /\ uci_moves = <<>>
  /\ move_evals = <<>>
  /\ result = None
  /\ error = None
  /\ echo = ""

\* The engine as constructed (lines 13-22): move_evals is empty and there
\* is no attribute move_amount.
NmIdle == NoCall /\ move_amount = <<>>

UnitIdle == call = None /\ ret = None

PoolIdle == heap = <<>> /\ batches = <<>>

MachineIdle == frames = <<>> /\ qret = <<>>

\* An engine as constructed and a board: either next_move is called on the
\* board, or a game is at the player's turn (game.py, line 20: the game
\* opens with player_move or with engine_move).  The boards are the seed
\* positions, not the starting position of chess.Board().
Init ==
  /\ board \in Seeds
  /\ opening_book \in {"book", "none"}
  /\ \/ pc = "engine"
     \/ pc = "player" /\ ~outcome(board)
  /\ NmIdle
  /\ UnitIdle
  /\ PoolIdle
  /\ MachineIdle

Next ==
  \/ NextMoveEnter
  \/ PoolMap
  \/ Rank
  \/ Pick
  \/ EngineMove
  \/ PlayerMove

Spec == Init /\ [][Next]_vars


(***************************************************************************)
(* Properties of next_move.                                                *)
(***************************************************************************)
\* The call of next_move in progress, or just ended, went through the
\* search (no book move was returned).
Searched ==
  \/ pc \in {"rank", "pick", "raised"}
  \/ pc = "returned" /\ echo = "reasoning"

\* The call of next_move has ended.
Ended == pc \in {"returned", "raised"}

\* The exception by which the book reports that it has no suggestion
\* (line 40).
NoSuggestion == "IndexError"

\* C4: called on a position with zero legal moves, next_move returns no
\* move and raises an error of its own kind, which is not the exception
\* that stands for "no suggestion from the book".
C4_NoLegalMovesError ==
  (Ended /\ ~has_legal_moves(board)) =>
     (pc = "raised" /\ result = None /\ error # NoSuggestion)

\* The root move delivers checkmate.
Mates(b, move) == is_checkmate(push(b, move))

DepthOne ==
  select_depth(move_amount[1], Cardinality(DOMAIN piece_map(board))) = 1

MateAvailable == \E m \in Range(uci_moves) : Mates(board, m)

\* C5: at search depth 1, with no book move, when some root move mates:
\* every root move is recorded, a mating one with score 100000 and any
\* other with a smaller score, and the move returned delivers checkmate.
C5_MateInOne ==
  (Searched /\ DepthOne /\ MateAvailable) =>
     /\ {e[1] : e \in Range(move_evals)} = Range(uci_moves)
     /\ \A e \in Range(move_evals) :
          IF Mates(board, e[1]) THEN e[2] = INF ELSE e[2] < INF
     /\ pc = "returned" =>
          \E m \in Range(uci_moves) :
            Mates(board, m) /\ result = san(board, m)

C5_Witness ==
  /\ pc = "returned" /\ echo = "reasoning"
  /\ DepthOne /\ MateAvailable
  /\ \E m \in Range(uci_moves) : ~Mates(board, m)
  /\ \E m \in Range(uci_moves) : Mates(board, m) /\ result = san(board, m)

\* The notations of the root moves whose recorded score is the maximum.
BestMoves ==
  {san(board, e[1]) :
     e \in {x \in Range(move_evals) :
              \A y \in Range(move_evals) : y[2] <= x[2]}}

\* The notations of the root moves whose recorded score is lower.
LesserMoves ==
  {san(board, e[1]) :
     e \in {x \in Range(move_evals) :
              \E y \in Range(move_evals) : y[2] > x[2]}}

\* C6: with no book move and at least one legal root move, next_move draws
\* its result from exactly the root moves of maximal recorded score: each
\* of them can be returned, and nothing else is.
C6_BestMoves ==
  /\ pc = "pick" =>
       /\ Range(best_prefix(board, move_evals, 1)) = BestMoves
       /\ \A s \in BestMoves : ENABLED (Pick /\ result' = s)
  /\ (pc = "returned" /\ echo = "reasoning") =>
       (result \in BestMoves /\ result \notin LesserMoves)

C6_Witness ==
  /\ pc = "returned" /\ echo = "reasoning"
  /\ Cardinality(BestMoves) >= 2
  /\ LesserMoves # {}
  /\ result \in BestMoves


(***************************************************************************)
(* Direct calls of the search functions: the arguments are drawn at the    *)
(* start, one step runs the call.                                          *)
(***************************************************************************)
WindowSteps == 1

MaxDepth == 2

\* The window bounds tried: the root's bounds and multiples of a minor
\* piece's value around zero.
Bounds == {-INF, INF} \cup {300 * k : k \in -WindowSteps..WindowSteps}

Calls(b) ==
  {[fn |-> "alphaBeta", board |-> b, alpha |-> a, beta |-> bt, depth |-> d] :
     a \in Bounds, bt \in Bounds, d \in 0..MaxDepth}
  \cup {[fn |-> "quiesce", board |-> b, alpha |-> a, beta |-> bt] :
          a \in Bounds, bt \in Bounds}
  \cup {[fn |-> "ordered", board |-> b]}
  \cup {[fn |-> "search_initializer", board |-> b,
         move |-> legal_moves(b)[i]] : i \in 1..Len(legal_moves(b))}

CallAlphaBeta ==
  /\ pc = "call" /\ call.fn = "alphaBeta"
  /\ LET r == alphaBeta(board, call.alpha, call.beta, call.depth)
     IN ret' = r.value /\ board' = r.board
  /\ pc' = "done"
  /\ UNCHANGED <<call, nmVars, poolVars, machineVars>>

CallQuiesce ==
  /\ pc = "call" /\ call.fn = "quiesce"
  /\ LET r == quiesce(board, call.alpha, call.beta)
     IN ret' = r.value /\ board' = r.board
  /\ pc' = "done"
  /\ UNCHANGED <<call, nmVars, poolVars, machineVars>>

CallOrdered ==
  /\ pc = "call" /\ call.fn = "ordered"
  /\ ret' = ordered(board)
  /\ pc' = "done"
  /\ UNCHANGED <<board, call, nmVars, poolVars, machineVars>>

\* On an engine without the attribute move_amount, line 76 raises
\* AttributeError before anything is pushed.
CallSearchInitializer ==
  /\ pc = "call" /\ call.fn = "search_initializer"
  /\ IF move_amount = <<>>
     THEN /\ error' = "AttributeError"
          /\ pc' = "raised"
          /\ UNCHANGED <<board, ret>>
     ELSE /\ LET r == search_initializer(move_amount[1], call.move, board)
             IN ret' = <<r.move, r.score>> /\ board' = r.board
          /\ pc' = "done"
          /\ UNCHANGED error
  /\ UNCHANGED <<call, opening_book, uci_moves, move_amount, move_evals,
                 result, echo, poolVars, machineVars>>

SearchInit ==
  /\ board \in Seeds
  /\ call \in {c \in Calls(board) : c.fn \in {"ordered", "search_initializer"}
                                      \/ c.alpha <= c.beta}
  /\ ret = None
  /\ pc = "call"
  /\ opening_book = "none"
  /\ NoCall
  /\ \/ move_amount = <<>>
     \/ /\ call.fn = "search_initializer"
        /\ move_amount = <<Len(legal_moves(board))>>
  /\ PoolIdle
  /\ MachineIdle

SearchNext ==
  \/ CallAlphaBeta
  \/ CallQuiesce
  \/ CallOrdered
  \/ CallSearchInitializer

SearchSpec == SearchInit /\ [][SearchNext]_vars


(***************************************************************************)
(* Properties of the search functions.                                     *)
(***************************************************************************)
Returned(fn) == pc = "done" /\ call.fn = fn

\* C1: when alphaBeta, quiesce or search_initializer returns, the board
\* (piece placement, side to move and move stack) is what it was at the
\* call.
C1_BoardRestored ==
  (Returned("alphaBeta") \/ Returned("quiesce")
     \/ Returned("search_initializer")) => board = call.board

\* An alphaBeta call of depth >= 1 on a board with a move on its stack
\* that ended by a beta cutoff in its loop, and the board is as it was.
C1_Witness ==
  /\ Returned("alphaBeta")
  /\ call.depth >= 1 /\ ~outcome(call.board) /\ call.board.stack # <<>>
  /\ call.alpha < call.beta /\ ret = call.beta
  /\ board = call.board

\* The game has ended in a draw on the board.
is_draw(b) == outcome(b) /\ ~is_checkmate(b)

\* C2 as stated: for depth >= 1 and alpha <= beta, alphaBeta returns a
\* value within [alpha, beta], on terminal positions too.
C2_Contained ==
  (Returned("alphaBeta") /\ call.depth >= 1 /\ call.alpha <= call.beta) =>
     (call.alpha <= ret /\ ret <= call.beta)

\* C2 as amended: for depth >= 1 and alpha <= beta, alphaBeta returns a
\* value within [alpha, beta], except on a position that is a draw, where
\* it returns 0 whatever the window.
C2_ContainedUnlessDraw ==
  (Returned("alphaBeta") /\ call.depth >= 1 /\ call.alpha <= call.beta) =>
     IF is_draw(call.board) THEN ret = 0
     ELSE call.alpha <= ret /\ ret <= call.beta

\* A search of a position that is not terminal, under a window narrower
\* than the root's, returning a value strictly inside the window.
C2_Witness ==
  /\ Returned("alphaBeta") /\ call.depth >= 1
  /\ ~outcome(call.board)
  /\ -INF < call.alpha /\ call.beta < INF
  /\ call.alpha < ret /\ ret < call.beta

FullWindowAtDepth0 ==
  /\ Returned("alphaBeta")
  /\ call.depth = 0 /\ call.alpha = -INF /\ call.beta = INF

\* C3 as stated: on every position, checkmates and draws included,
\* alphaBeta(board, -INF, INF, 0) equals quiesce(board, -INF, INF).
C3_DepthZeroIsQuiesce ==
  FullWindowAtDepth0 => ret = quiesce(call.board, -INF, INF).value

\* C3 as amended: on every position where the game has not ended,
\* alphaBeta(board, -INF, INF, 0) equals quiesce(board, -INF, INF); on a
\* position where it has ended, alphaBeta(board, -INF, INF, 0) is -INF for
\* a checkmate and 0 for a draw.
C3_DepthZeroIsQuiesceUnlessEnded ==
  FullWindowAtDepth0 =>
     IF outcome(call.board)
     THEN ret = (IF is_checkmate(call.board) THEN -INF ELSE 0)
     ELSE ret = quiesce(call.board, -INF, INF).value

\* A depth-0 search of a position that is not terminal in which the
\* quiescence search improves on the static evaluation.
C3_Witness ==
  /\ FullWindowAtDepth0 /\ ~outcome(call.board)
  /\ ret = quiesce(call.board, -INF, INF).value
  /\ ret # evaluate_board(call.board)

\* The number of times x occurs in seq.
Count(seq, x) == Cardinality({i \in 1..Len(seq) : seq[i] = x})

\* The elements of seq that satisfy Test, in order.
NonCaptures(b, seq) == SelectSeq(seq, LAMBDA m : ~is_capture(b, m))

\* C9: ordered(board) is a permutation of the legal moves in which every
\* capture precedes every non-capture and the non-captures keep their
\* generation order.
C9_Ordered ==
  Returned("ordered") =>
    LET gen == legal_moves(call.board)
    IN /\ Len(ret) = Len(gen)
       /\ \A m \in Range(gen) \cup Range(ret) :
            Count(ret, m) = Count(gen, m)
       /\ \A i, j \in 1..Len(ret) :
            (is_capture(call.board, ret[j]) /\ ~is_capture(call.board, ret[i]))
              => j < i
       /\ NonCaptures(call.board, ret) = NonCaptures(call.board, gen)

\* A position where a capture is generated after a non-capture, so that
\* the ordering moves it, and with several non-captures.
C9_Witness ==
  /\ Returned("ordered")
  /\ ret # legal_moves(call.board)
  /\ is_capture(call.board, ret[1])
  /\ Len(NonCaptures(call.board, ret)) >= 2


(***************************************************************************)
(* The depth selection of search_initializer, applied to a number of legal *)
(* root moves and a number of pieces.                                      *)
(***************************************************************************)
MaxMoves == 40

CallSelectDepth ==
  /\ pc = "call" /\ call.fn = "select_depth"
  /\ ret' = select_depth(move_amount[1], call.npieces)
  /\ pc' = "done"
  /\ UNCHANGED <<board, call, nmVars, poolVars, machineVars>>

DepthInit ==
  /\ board = Catalogue[1]
  /\ call \in {[fn |-> "select_depth", npieces |-> n] : n \in 2..32}
  /\ ret = None
  /\ pc = "call"
  /\ opening_book = "none"
  /\ NoCall
  /\ move_amount \in {<<m>> : m \in 1..MaxMoves}
  /\ PoolIdle
  /\ MachineIdle

DepthNext == CallSelectDepth

DepthSpec == DepthInit /\ [][DepthNext]_vars

\* C7: the depth is monotone in both inputs: with the same number of legal
\* root moves, fewer pieces never give a smaller depth, and with the same
\* number of pieces, fewer legal root moves never give a smaller depth.
C7_DepthMonotone ==
  Returned("select_depth") =>
    /\ \A n \in 2..32 :
         n <= call.npieces => select_depth(move_amount[1], n) >= ret
    /\ \A m \in 1..MaxMoves :
         m <= move_amount[1] => select_depth(m, call.npieces) >= ret


(***************************************************************************)
(* The process pool of next_move (lines 52-54), task by task.  map cuts    *)
(* the task list into batches and pickles each batch; a worker process     *)
(* unpickles a batch into objects of its own and runs the batch's tasks    *)
(* one after the other.  At most PoolNodes batches run at a time, and the  *)
(* batches are taken in the order of the task list.                        *)
(***************************************************************************)
PoolNodes == 6

\* The batch size map computes for n tasks: ceil(n / (4 * PoolNodes)).
chunksize(n) == (n + 4 * PoolNodes - 1) \div (4 * PoolNodes)

\* The board object on which the tasks of batch k work; object 0 is the
\* caller's board.  Threads handed the caller's list would all work on
\* object 0.
task_object_shared(k) == 0

\* Batch k is unpickled into a board object of its own, object k.
task_object(k) == k

deref(o) == IF o = 0 THEN board ELSE heap[o]

\* The assignment of the board b to the object o.
Store(o, b) ==
  /\ board' = IF o = 0 THEN b ELSE board
  /\ heap' = IF o = 0 THEN heap ELSE [heap EXCEPT ![o] = b]

\* The position a running task works on, and the root move it evaluates.
task_index(k) == batches[k].tasks[batches[k].next]

task_move(k) == uci_moves[task_index(k)]

\* Lines 52-54, the call of map: the board list is cut into batches and
\* every batch is pickled with its own copy of the board.
PoolEnter ==
  /\ pc = "search"
  /\ LET n == Len(uci_moves)
         cs == chunksize(n)
         nb == IF n = 0 THEN 0 ELSE (n + cs - 1) \div cs
         last(k) == IF k * cs < n THEN k * cs ELSE n
     IN /\ heap' = [k \in 1..nb |-> board]
        /\ batches' =
             [k \in 1..nb |->
                [tasks |-> [j \in 1..(last(k) - (k - 1) * cs) |->
                              (k - 1) * cs + j],
                 next |-> 1,
                 stage |-> "queued",
                 object |-> task_object(k),
                 depth |-> 0,
                 score |-> 0,
                 results |-> <<>>]]
  /\ call' = [fn |-> "map", board |-> board]
  /\ pc' = "map"
  /\ UNCHANGED <<board, ret, nmVars, machineVars>>

\* The batches a worker process is running.
Running == {k \in DOMAIN batches :
              batches[k].stage \in {"ready", "pushed", "searched"}}

\* search_initializer, lines 75-84: the depth is chosen and the root move
\* is pushed.  A queued batch starts when a worker is free and every batch
\* before it has started.
TaskPush(k) ==
  /\ pc = "map"
  /\ \/ batches[k].stage = "ready"
     \/ /\ batches[k].stage = "queued"
        /\ Cardinality(Running) < PoolNodes
        /\ \A j \in 1..(k - 1) : batches[j].stage # "queued"
  /\ LET o == batches[k].object
         b == deref(o)
     IN /\ batches' =
             [batches EXCEPT
                ![k].stage = "pushed",
                ![k].depth =
                   select_depth(move_amount[1],
                                Cardinality(DOMAIN piece_map(b)))]
        /\ Store(o, push(b, task_move(k)))
  /\ UNCHANGED <<pc, unitVars, nmVars, machineVars>>

\* search_initializer, line 85: the search below the root move.
TaskSearch(k) ==
  /\ pc = "map"
  /\ batches[k].stage = "pushed"
  /\ LET o == batches[k].object
         r == alphaBeta(deref(o), -INF, INF, batches[k].depth)
     IN /\ batches' = [batches EXCEPT ![k].stage = "searched",
                                      ![k].score = -r.value]
        /\ Store(o, r.board)
  /\ UNCHANGED <<pc, unitVars, nmVars, machineVars>>

\* search_initializer, lines 86-87: the root move is popped and the pair
\* (move, score) is the task's result.
TaskPop(k) ==
  /\ pc = "map"
  /\ batches[k].stage = "searched"
  /\ LET o == batches[k].object
     IN /\ batches' =
             [batches EXCEPT
                ![k].stage = IF batches[k].next = Len(batches[k].tasks)
                             THEN "finished" ELSE "ready",
                ![k].next = batches[k].next + 1,
                ![k].results =
                   Append(batches[k].results,
                          <<task_move(k), batches[k].score>>)]
        /\ Store(o, pop(deref(o)))
  /\ UNCHANGED <<pc, unitVars, nmVars, machineVars>>

RECURSIVE gathered(_)
\* The results of the batches k.., in the order of the task list.
gathered(k) ==
  IF k > Len(batches) THEN <<>>
  ELSE batches[k].results \o gathered(k + 1)

\* Line 54: map returns the results when every batch has finished.
PoolJoin ==
  /\ pc = "map"
  /\ \A k \in DOMAIN batches : batches[k].stage = "finished"
  /\ move_evals' = gathered(1)
  /\ heap' = <<>>
  /\ batches' = <<>>
  /\ call' = None
  /\ pc' = "rank"
  /\ UNCHANGED <<board, ret, opening_book, uci_moves, move_amount, result,
                 error, echo, machineVars>>

\* Black, in check from the rook, has two replies.
Evasion ==
  Board((0 :> Piece(WHITE, KING)) @@ (7 :> Piece(WHITE, ROOK))
          @@ (63 :> Piece(BLACK, KING)), BLACK)

\* A king in the centre has eight moves: more tasks than worker processes.
CentralKing ==
  Board((27 :> Piece(WHITE, KING)) @@ (63 :> Piece(BLACK, KING)), WHITE)

PoolCatalogue == <<Evasion, BareKings, CentralKing, Stalemated>>

NumPoolSeeds == 3

PoolSeeds == {PoolCatalogue[i] : i \in 1..NumPoolSeeds}

\* An engine as constructed, and next_move called on a board.
PoolInit ==
  /\ board \in PoolSeeds
  /\ opening_book \in {"book", "none"}
  /\ pc = "engine"
  /\ NmIdle
  /\ UnitIdle
  /\ PoolIdle
  /\ MachineIdle

PoolNext ==
  \/ NextMoveEnter
  \/ PoolEnter
  \/ \E k \in DOMAIN batches : TaskPush(k)
  \/ \E k \in DOMAIN batches : TaskSearch(k)
  \/ \E k \in DOMAIN batches : TaskPop(k)
  \/ PoolJoin
  \/ Rank
  \/ Pick

PoolSpec == PoolInit /\ [][PoolNext]_vars

\* The batches whose task has its root move on the board.
Pushed == {k \in DOMAIN batches : batches[k].stage \in {"pushed", "searched"}}

\* C8: while the tasks of the pool run, under every interleaving, the
\* batches work on distinct board objects, none of them the caller's; the
\* caller's board is as it was at the call of map; a task that is about to
\* start finds the board as it was at the call; and the board of a task
\* that has pushed its root move carries that move and no other.
C8_TasksIsolated ==
  pc = "map" =>
    /\ board = call.board
    /\ \A k \in DOMAIN batches :
         /\ batches[k].object # 0
         /\ \A j \in DOMAIN batches :
              j # k => batches[j].object # batches[k].object
         /\ batches[k].stage \in {"queued", "ready", "finished"} =>
              deref(batches[k].object) = call.board
         /\ k \in Pushed =>
              deref(batches[k].object) = push(call.board, task_move(k))

\* Two tasks have their root moves applied at the same time, each on its
\* own board, while a third batch has not started.
C8_Witness ==
  /\ pc = "map"
  /\ board = call.board
  /\ \E j, k \in Pushed :
       /\ j # k
       /\ deref(batches[j].object) # deref(batches[k].object)
  /\ \E k \in DOMAIN batches :
       batches[k].stage = "queued" /\ deref(batches[k].object) = call.board

\* The pool run task by task gives map the result of the tasks run one
\* after the other on the caller's position.
PoolGathersPoolMap ==
  pc = "rank" =>
    move_evals =
      [i \in 1..Len(uci_moves) |->
         LET r == search_initializer(move_amount[1], uci_moves[i], board)
         IN <<r.move, r.score>>]


(***************************************************************************)
(* quiesce step by step (lines 156-172), with its call stack: one frame    *)
(* per call in progress, holding the window, the generated moves and the   *)
(* position of the for loop.                                               *)
(***************************************************************************)
Frame(alpha, beta) ==
  [alpha |-> alpha, beta |-> beta, gen |-> <<>>, i |-> 0, at |-> "enter"]

Top == frames[Len(frames)]

\* A return of the running call with value v: its frame is dropped, and
\* the outermost call's return ends the run.
Return(v) ==
  /\ frames' = SubSeq(frames, 1, Len(frames) - 1)
  /\ qret' = <<v>>
  /\ pc' = IF Len(frames) = 1 THEN "done" ELSE pc

\* Lines 158-163: stand pat, then the move generation.
QEnter ==
  /\ pc = "quiesce"
  /\ Top.at = "enter"
  /\ LET stand_pat == evaluate_board(board)
     IN IF stand_pat >= Top.beta
        THEN Return(Top.beta)
        ELSE /\ frames' =
                  [frames EXCEPT
                     ![Len(frames)] =
                        [alpha |-> IF Top.alpha < stand_pat
                                   THEN stand_pat ELSE Top.alpha,
                         beta |-> Top.beta,
                         gen |-> legal_moves(board),
                         i |-> 1,
                         at |-> "loop"]]
             /\ UNCHANGED <<pc, qret>>
  /\ UNCHANGED <<board, unitVars, nmVars, poolVars>>

\* Lines 163-166 and 172: the head of the for loop.  A move that is
\* followed is pushed and quiesce is called on the negated, swapped window;
\* after the last move the call returns alpha.
QLoop ==
  /\ pc = "quiesce"
  /\ Top.at = "loop"
  /\ IF Top.i > Len(Top.gen)
     THEN Return(Top.alpha) /\ UNCHANGED board
     ELSE IF ~quiesce_explores(board, Top.gen[Top.i])
     THEN /\ frames' = [frames EXCEPT ![Len(frames)].i = Top.i + 1]
          /\ UNCHANGED <<board, pc, qret>>
     ELSE /\ board' = push(board, Top.gen[Top.i])
          /\ frames' =
               Append([frames EXCEPT ![Len(frames)].at = "resume"],
                      Frame(-Top.beta, -Top.alpha))
          /\ UNCHANGED <<pc, qret>>
  /\ UNCHANGED <<unitVars, nmVars, poolVars>>

\* Lines 166-171: the recursive call has returned; the move is popped and
\* the score is compared with the window.
QResume ==
  /\ pc = "quiesce"
  /\ Top.at = "resume"
  /\ board' = pop(board)
  /\ LET score == -qret[1]
     IN IF score > Top.alpha /\ score >= Top.beta
        THEN Return(Top.beta)
        ELSE /\ frames' =
                  [frames EXCEPT
                     ![Len(frames)] =
                        [Top EXCEPT
                           !.alpha = IF score > Top.alpha
                                     THEN score ELSE Top.alpha,
                           !.i = Top.i + 1,
                           !.at = "loop"]]
             /\ UNCHANGED <<pc, qret>>
  /\ UNCHANGED <<unitVars, nmVars, poolVars>>

\* The seeds, and a position where a capture is answered by a capture.
QuiesceSeeds == Seeds \cup {Exchange}

MachineInit ==
  /\ board \in QuiesceSeeds
  /\ call \in {c \in Calls(board) : c.fn = "quiesce" /\ c.alpha <= c.beta}
  /\ ret = None
  /\ pc = "quiesce"
  /\ frames = <<Frame(call.alpha, call.beta)>>
  /\ qret = <<>>
  /\ opening_book = "none"
  /\ NmIdle
  /\ PoolIdle

MachineNext ==
  \/ QEnter
  \/ QLoop
  \/ QResume

\* A call that has started keeps running: the interpreter takes the next
\* step whenever there is one.
MachineSpec == MachineInit /\ [][MachineNext]_vars /\ WF_vars(MachineNext)

\* The pieces captured since the call and not yet put back.
Captured ==
  Cardinality(DOMAIN piece_map(call.board))
    - Cardinality(DOMAIN piece_map(board))

\* The recursive calls in progress, with the one that has just returned
\* and whose move is still on the board.
Nested == Len(frames) - 1 + (IF Top.at = "resume" THEN 1 ELSE 0)

\* C10: quiesce terminates on every position and window.  Every recursive
\* call in progress stands for one piece captured, so the calls in progress
\* are fewer than the pieces of the position at the call; and the call
\* eventually returns, with every frame dropped and the board as it was.
C10_QuiesceTerminates ==
  /\ [](pc = "quiesce" =>
          /\ Nested = Captured
          /\ Nested < Cardinality(DOMAIN piece_map(call.board)))
  /\ <>(pc = "done" /\ frames = <<>> /\ board = call.board)

\* Two captures deep: a capture has been answered by a capture.
C10_Witness ==
  /\ pc = "quiesce"
  /\ Len(frames) = 3
  /\ Captured = 2

\* The stepwise run returns what the recursive definition returns.
MachineAgrees ==
  pc = "done" =>
    LET r == quiesce(call.board, call.alpha, call.beta)
    IN qret = <<r.value>> /\ board = r.board

=============================================================================
